---- MODULE Spec2Model ----
(***************************************************************************)
(* Model of the python_execution tool of avilink-ai-agent                  *)
(* (src/app/lib/tools/python-execution-tool.ts, base-tool.ts).             *)
(*                                                                         *)
(* Text is a sequence of tokens.  A sentinel marker, a whitespace run, a   *)
(* keyword or a message is one token; indexOf/substring/trim work on token *)
(* positions exactly as the JavaScript string methods work on characters.  *)
(* Time is in milliseconds (the unit of Date.now and setTimeout).          *)
(***************************************************************************)
EXTENDS Integers, Sequences, FiniteSets, TLC

-----------------------------------------------------------------------------
(* Bounds of the model *)

\* the clock advances in steps of TickMs milliseconds
TickMs == 10000

\* the clock stops advancing (by Tick) once it has reached MaxClock milliseconds
MaxClock == 40000

\* how many milliseconds the clock of the two concurrent calls is followed
MaxConcClock == 2

\* the longest captured output, in tokens, that parseOutput is applied to
MaxOutputLen == 4

\* how many hours the clock of the search cache is followed
MaxSearchClock == 7

\* how many calls of DeepSearch execute are followed
MaxSearchCalls == 3

\* how many requests to POST /api/tools are followed
MaxToolRequests == 2

\* how many requests to POST /api/chat are followed
MaxChatRequests == 2

\* how many calls of useChat's sendMessage are followed
MaxSends == 2

\* how many registerTool/unregisterTool calls on a ToolRegistry are followed
MaxRegistryOps == 4

-----------------------------------------------------------------------------
(* JavaScript values and string methods *)

\* JavaScript null, for the `error: string | null` field
Null == <<"<null>">>

\* the empty string ''
Empty == <<>>

IsWs(t) == t \in {" ", "\n"}

\* String.prototype.indexOf: 0-based position of the first occurrence, or -1
IndexOf(text, tok) ==
    IF \E i \in 1..Len(text) : text[i] = tok
    THEN (CHOOSE i \in 1..Len(text) :
             text[i] = tok /\ \A j \in 1..(i - 1) : text[j] # tok) - 1
    ELSE -1

Clamp(n, len) == IF n < 0 THEN 0 ELSE IF n > len THEN len ELSE n

\* String.prototype.substring(a, b): arguments are clamped to [0, length]
\* and swapped when a > b; the result is the half-open range [lo, hi)
Substring(text, a, b) ==
    LET ca == Clamp(a, Len(text))
        cb == Clamp(b, Len(text))
        lo == IF ca <= cb THEN ca ELSE cb
        hi == IF ca <= cb THEN cb ELSE ca
    IN  SubSeq(text, lo + 1, hi)

\* String.prototype.trim: drop leading and trailing whitespace
Trim(text) ==
    LET nonws == {i \in 1..Len(text) : ~IsWs(text[i])}
    IN  IF nonws = {} THEN Empty
        ELSE LET first == CHOOSE i \in nonws : \A j \in nonws : i <= j
                 last  == CHOOSE i \in nonws : \A j \in nonws : j <= i
             IN  SubSeq(text, first, last)

\* JavaScript truthiness of a `string | null`
Truthy(v) == v # Null /\ v # Empty

\* v || null
OrNull(v) == IF Truthy(v) THEN v ELSE Null

-----------------------------------------------------------------------------
(* Output Framer: sentinels and extraction *)

OUTPUT_START == "AVILINK_OUTPUT_START"
OUTPUT_END   == "AVILINK_OUTPUT_END"
ERROR_START  == "AVILINK_ERROR_START"
ERROR_END    == "AVILINK_ERROR_END"

\* a marker is one token: startMarker.length in token positions
MarkerLength(marker) == Len(<<marker>>)

\* parseOutput whose fallback returns the raw text untrimmed
parseOutput_NoTrim(output) ==
    LET startIndex == IndexOf(output, OUTPUT_START)
        endIndex   == IndexOf(output, OUTPUT_END)
    IN  IF startIndex # -1 /\ endIndex # -1
        THEN Trim(Substring(output, startIndex + MarkerLength(OUTPUT_START), endIndex))
        ELSE output

parseOutput(output) ==
    LET startIndex == IndexOf(output, OUTPUT_START)
        endIndex   == IndexOf(output, OUTPUT_END)
    IN  IF startIndex # -1 /\ endIndex # -1
        THEN Trim(Substring(output, startIndex + MarkerLength(OUTPUT_START), endIndex))
        ELSE Trim(output)

\* parseError without the fallback to the whole trimmed text
parseError_NoFallback(error) ==
    LET startIndex == IndexOf(error, ERROR_START)
        endIndex   == IndexOf(error, ERROR_END)
    IN  IF startIndex # -1 /\ endIndex # -1
        THEN Trim(Substring(error, startIndex + MarkerLength(ERROR_START), endIndex))
        ELSE Null

parseError(error) ==
    LET startIndex == IndexOf(error, ERROR_START)
        endIndex   == IndexOf(error, ERROR_END)
    IN  IF startIndex # -1 /\ endIndex # -1
        THEN Trim(Substring(error, startIndex + MarkerLength(ERROR_START), endIndex))
        ELSE OrNull(Trim(error))

-----------------------------------------------------------------------------
(* Safety Pre-Filter *)

\* A pattern is a sequence of literal tokens and the two whitespace
\* quantifiers "\\s+" and "\\s*".  MatchFrom: pat[j..] matches text at i.
RECURSIVE MatchFrom(_, _, _, _)
MatchFrom(text, i, pat, j) ==
    IF j > Len(pat) THEN TRUE
    ELSE IF pat[j] = "\\s*"
         THEN \/ MatchFrom(text, i, pat, j + 1)
              \/ i <= Len(text) /\ IsWs(text[i]) /\ MatchFrom(text, i + 1, pat, j)
    ELSE IF pat[j] = "\\s+"
         THEN /\ i <= Len(text) /\ IsWs(text[i])
              /\ \/ MatchFrom(text, i + 1, pat, j + 1)
                 \/ MatchFrom(text, i + 1, pat, j)
    ELSE i <= Len(text) /\ text[i] = pat[j] /\ MatchFrom(text, i + 1, pat, j + 1)

\* RegExp.prototype.test for an unanchored pattern
RegexTest(pat, text) == \E i \in 1..(Len(text) + 1) : MatchFrom(text, i, pat, 1)

unsafePatterns == <<
    <<"import", "\\s+", "os">>,
    <<"import", "\\s+", "subprocess">>,
    <<"import", "\\s+", "sys">>,
    <<"from", "\\s+", "os">>,
    <<"from", "\\s+", "subprocess">>,
    <<"exec", "\\s*", "(">>,
    <<"eval", "\\s*", "(">>,
    <<"__import__">>,
    <<"open", "\\s*", "(">>,
    <<"file", "\\s*", "(">>,
    <<"input", "\\s*", "(">>,
    <<"raw_input", "\\s*", "(">> >>

containsUnsafeOperations(code) ==
    \E k \in 1..Len(unsafePatterns) : RegexTest(unsafePatterns[k], code)

-----------------------------------------------------------------------------
(* Source texts submitted to the tool and what the interpreter does on them *)

\* What running a user source does: the text it prints to sys.stdout, the
\* text it writes to the interpreter's original stdout (sys.__stdout__), the
\* text it makes the interpreter write to the real stderr (warnings), and how
\* it ends: "ok", "raise" (an Exception with message msg and traceback tail
\* exc), "exit" (SystemExit(code), not an Exception), "loop" (never ends) or
\* "syntax" (the script does not compile).  forks: it leaves behind a child
\* process that inherited the interpreter's stdout and stderr and never ends.
Behav(out, err, end, msg, exc, code) ==
    [out |-> out, raw |-> Empty, err |-> err, end |-> end, msg |-> msg, exc |-> exc,
     code |-> code, forks |-> FALSE]

SrcHello == [text  |-> <<"print", "(", "\"hello\"", ")">>,
             behav |-> Behav(<<"hello", "\n">>, Empty, "ok", "", "", 0)]

SrcDiv == [text  |-> <<"print", "(", "1/0", ")">>,
           behav |-> Behav(Empty, Empty, "raise", "division by zero",
                           "ZeroDivisionError: division by zero", 0)]

SrcOs == [text  |-> <<"import", " ", "os", ";", " ", "os", ".", "system", "(", "'ls'", ")">>,
          behav |-> Behav(<<"src", "\n">>, Empty, "ok", "", "", 0)]

SrcEval == [text  |-> <<"print", "(", "eval", " ", "(", "'1'", ")", ")">>,
            behav |-> Behav(<<"1", "\n">>, Empty, "ok", "", "", 0)]

SrcLoop == [text  |-> <<"while", " ", "True", ":", " ", "pass">>,
            behav |-> Behav(Empty, Empty, "loop", "", "", 0)]

SrcWarn == [text  |-> <<"import", " ", "warnings", ";", " ", "warnings", ".", "warn",
                        "(", "'w'", ")">>,
            behav |-> Behav(Empty, <<"UserWarning: w", "\n">>, "ok", "", "", 0)]

SrcExit == [text  |-> <<"raise", " ", "SystemExit", "(", "1", ")">>,
            behav |-> Behav(Empty, Empty, "exit", "", "", 1)]

SrcSyntax == [text  |-> <<"print", "(">>,
              behav |-> Behav(Empty, Empty, "syntax", "", "", 1)]

\* a warning whose message carries the error sentinels around "boom"
SrcMark == [text  |-> <<"import", " ", "warnings", ";", " ", "warnings", ".", "warn",
                        "(", "'AVILINK_ERROR_START boom AVILINK_ERROR_END'", ")">>,
            behav |-> Behav(Empty,
                            <<"UserWarning: ", ERROR_START, " ", "boom", " ", ERROR_END, "\n">>,
                            "ok", "", "", 0)]

\* a warning whose message carries the error sentinels around nothing
SrcMarkEmpty == [text  |-> <<"import", " ", "warnings", ";", " ", "warnings", ".", "warn",
                             "(", "'AVILINK_ERROR_START AVILINK_ERROR_END'", ")">>,
                 behav |-> Behav(Empty,
                                 <<"UserWarning: ", ERROR_START, " ", ERROR_END, "\n">>,
                                 "ok", "", "", 0)]

\* a source that writes to the original stdout, around the redirection
SrcRaw == [text  |-> <<"from", " ", "sys", " ", "import", " ", "__stdout__", ";", " ",
                       "__stdout__", ".", "write", "(", "'raw'", ")">>,
           behav |-> [Behav(Empty, Empty, "ok", "", "", 0) EXCEPT !.raw = <<"raw">>]]

\* the empty string
SrcEmpty == [text  |-> Empty,
             behav |-> Behav(Empty, Empty, "ok", "", "", 0)]

\* a source whose forked child loops forever while the interpreter goes on
SrcFork == [text  |-> <<"import", " ", "posix", "\n",
                        "if", " ", "posix", ".", "fork", "(", ")", " ", "==", " ", "0", ":", "\n",
                        "    ", "while", " ", "True", ":", " ", "pass">>,
            behav |-> [Behav(Empty, Empty, "ok", "", "", 0) EXCEPT !.forks = TRUE]]

Sources == {SrcHello, SrcDiv, SrcOs, SrcEval, SrcLoop, SrcWarn, SrcExit, SrcSyntax,
            SrcMark, SrcMarkEmpty, SrcRaw, SrcEmpty, SrcFork}

SourceTexts == {s.text : s \in Sources}

BehaviourOf(text) == (CHOOSE s \in Sources : s.text = text).behav

-----------------------------------------------------------------------------
(* Output Framer: the wrapper script *)

\* Python print(x): the text and a newline, written to the current sys.stdout
PyPrint(st, text) ==
    IF st.sysStdout = "StringIO"
    THEN [st EXCEPT !.buffer = @ \o text \o <<"\n">>]
    ELSE [st EXCEPT !.stdout = @ \o text \o <<"\n">>]

\* The interpreter running the script that wrapCodeWithSafety produces around
\* a user source with behaviour b.  The result is the process as its parent
\* sees it: what reached the real stdout and stderr, the exit code, whether
\* it ends at all, and whether a descendant keeps its stdout and stderr open.
wrapCodeWithSafety(b) ==
    LET s0 == [sysStdout |-> "real", buffer |-> Empty, stdout |-> Empty,
               stderr |-> Empty, exit |-> 0, ends |-> TRUE, descendant |-> FALSE]
        \* sys.stdout = StringIO()
        s1 == [s0 EXCEPT !.sysStdout = "StringIO"]
        \* the user code: its prints go to sys.stdout, its warnings to stderr
        s2 == [s1 EXCEPT !.buffer = @ \o b.out, !.stdout = @ \o b.raw,
                         !.stderr = @ \o b.err, !.descendant = b.forks]
        \* output = sys.stdout.getvalue(); print(START); print(output); print(END)
        output == s2.buffer
        s3 == PyPrint(PyPrint(PyPrint(s2, <<OUTPUT_START>>), output), <<OUTPUT_END>>)
        \* except Exception as e: print(START); print(f"Error: {e}"); print(END);
        \* traceback.print_exc() writes to stderr
        e1 == PyPrint(PyPrint(PyPrint(s2, <<ERROR_START>>), <<"Error: ", b.msg>>), <<ERROR_END>>)
        e2 == [e1 EXCEPT !.stderr = @ \o <<"Traceback (most recent call last):", "\n",
                                            b.exc, "\n">>]
        \* finally: sys.stdout = old_stdout
        Finally(s) == [s EXCEPT !.sysStdout = "real"]
    IN  CASE b.end = "syntax" ->
               [s0 EXCEPT !.stderr = <<"SyntaxError: invalid syntax", "\n">>, !.exit = 1]
          [] b.end = "loop"   -> [s1 EXCEPT !.ends = FALSE]
          [] b.end = "ok"     -> Finally(s3)
          [] b.end = "raise"  -> Finally(e2)
          [] b.end = "exit"   -> [Finally(s2) EXCEPT !.exit = b.code]

-----------------------------------------------------------------------------
(* Parameters of a call *)

\* JavaScript undefined, for the optional top-level `error` of the tool result
Undefined == <<"<undefined>">>

NoParams == [x \in {} |-> 0]

\* A parameter object is a record with some of the fields code, timeout
\* (seconds) and capture_output; a field that is absent is undefined.
ParamObjects ==
    { c @@ t @@ o :
        c \in {NoParams} \cup {("code" :> txt) : txt \in SourceTexts},
        t \in {NoParams} \cup {("timeout" :> n) : n \in {10, 20}},
        o \in {NoParams} \cup {("capture_output" :> b) : b \in BOOLEAN} }

\* BaseTool.validateParameters
validateParameters(parameters, required) ==
    LET missingParams == {param \in required : param \notin DOMAIN parameters}
    IN  [isValid |-> missingParams = {}, missingParams |-> missingParams]

\* const { code, timeout = 30, capture_output = true } = parameters
DefaultTimeout == 30

TimeoutOf(parameters) ==
    IF "timeout" \in DOMAIN parameters THEN parameters.timeout ELSE DefaultTimeout

CaptureOf(parameters) ==
    IF "capture_output" \in DOMAIN parameters THEN parameters.capture_output ELSE TRUE

\* execute without the security validation
ExecuteGate_NoFilter(parameters) ==
    IF ~validateParameters(parameters, {"code"}).isValid THEN "missing" ELSE "run"

\* execute, up to the call of executePythonCode: "missing" and "unsafe" throw
ExecuteGate(parameters) ==
    IF ~validateParameters(parameters, {"code"}).isValid THEN "missing"
    ELSE IF containsUnsafeOperations(parameters.code) THEN "unsafe"
    ELSE "run"

-----------------------------------------------------------------------------
(* Results *)

\* the value runPythonProcess resolves with when the timer has fired
TimeoutResult(timeout) ==
    [code |-> Empty, output |-> Empty, error |-> <<"Execution timed out">>,
     execution_time |-> timeout * 1000, status |-> "timeout"]

\* the value the 'close' handler resolves with otherwise
CloseResult(output, error, exitCode) ==
    LET cleanOutput == parseOutput(output)
        cleanError  == parseError(error)
    IN  [code |-> Empty, output |-> cleanOutput, error |-> OrNull(cleanError),
         execution_time |-> 0,
         status |-> IF exitCode = 0 /\ ~Truthy(cleanError) THEN "success" ELSE "error"]

\* the value the 'error' handler resolves with
ErrorResult(message) ==
    [code |-> Empty, output |-> Empty, error |-> <<"Process error: ">> \o message,
     execution_time |-> 0, status |-> "error"]

\* executePythonCode, try block: { ...result, code, execution_time: executionTime }
TryReturn(result, code, executionTime) ==
    [kind  |-> "return",
     value |-> [result EXCEPT !.code = code, !.execution_time = executionTime]]

\* a catch block that rethrows instead of building a result
CatchBlock_Rethrow(code, message) ==
    [kind |-> "throw", value |-> message]

\* executePythonCode, catch block
CatchBlock(code, message) ==
    [kind  |-> "return",
     value |-> [code |-> code, output |-> Empty, error |-> message,
                execution_time |-> 0, status |-> "error"]]

\* the object execute returns
ToolResult(result, executionTime) ==
    [success |-> result.status = "success",
     data |-> result,
     error |-> IF result.status = "error" /\ Truthy(result.error)
               THEN result.error ELSE Undefined,
     executionTime |-> executionTime]

\* logExecution without its try/catch: a failed upsert or create propagates
logExecution_NoCatch(ok) == IF ok THEN "created" ELSE "thrown"

\* logExecution: the upsert and the create succeed, or one of them fails and
\* the catch block prints the error
logExecution(ok) == IF ok THEN "created" ELSE "caught"

\* a spawn that is attempted twice
Spawn_Twice(log, command) == Append(Append(log, command), command)

\* spawn(command, args): one more external process
Spawn(log, command) == Append(log, command)

\* a cleanup that leaves the script in place
Unlink_Skip(files, path) == files

\* unlink(path): the file is gone afterwards (if it was not there, the error
\* is caught by the caller)
Unlink(files, path) == files \ {path}

\* the row logExecution creates
ExecutionRecord(code, result) ==
    [language |-> "python", code |-> code, output |-> result.output,
     error |-> result.error, status |-> result.status,
     duration |-> result.execution_time]

-----------------------------------------------------------------------------
(* State *)

VARIABLES
    pc,         \* where the call of execute stands: "idle", "mkdir", "writeFile",
                \* "running", "unlink", "log", "logged", "returned", "thrown",
                \* or "hung"
                \* (its promise can no longer settle)
    params,     \* the parameter object of the call
    now,        \* Date.now()
    fs,         \* the file system: does /tmp/avilink-python exist, and the
                \* script files in it (named by their timestamp)
    spawns,     \* the external commands spawned so far, in order
    records,    \* the CodeExecution rows created so far, in order
    run,        \* locals of measureExecutionTime, executePythonCode and
                \* runPythonProcess
    proc,       \* the interpreter process and its pipes
    completion, \* how executePythonCode completes, once that is decided
    ret,        \* what execute gave its caller: a tool result or a thrown error
    hist,       \* history: how the process ended ("no", "self", "killed" by the
                \* timer, "failed" to start), whether the timer fired after
                \* the process had ended by itself, and which file-system
                \* step failed ("ok", "mkdir", "mkdirSpawn", "write"), and
                \* whether the execution row was stored ("none", "ok", "failed")
    conc,       \* two calls of execute in flight in one Node process: the
                \* clock, the scripts in the temp directory with their
                \* contents, and per call its position, its script path and
                \* the script its interpreter opened
    ps,         \* parseOutput applied to one captured output, and to its
                \* own result
    ds,         \* DeepSearch: its cache table, the LLM requests made and
                \* the call of execute in progress
    tr,         \* POST /api/tools: the request in progress, its response
                \* and the stored 'tool' messages
    ch,         \* POST /api/chat: the request in progress, its response
                \* and the stored conversations and messages
    uc,         \* useChat: currentConversation in the React state and as
                \* last rendered, and the calls of sendMessage
    reg         \* a ToolRegistry: its map of tools and the calls made on it

vars == <<pc, params, now, fs, spawns, records, run, proc, completion, ret, hist, conc, ps, ds, tr, ch, uc, reg>>

\* the variables of a call of execute
execVars == <<pc, params, now, fs, spawns, records, run, proc, completion, ret, hist>>

\* the variables of the other parts of the program, which a call of execute
\* leaves alone
others == <<conc, ps, ds, tr, ch, uc, reg>>

\* everything but conc
except_conc == <<execVars, ps, ds, tr, ch, uc, reg>>

\* everything but ps
except_ps == <<execVars, conc, ds, tr, ch, uc, reg>>

\* everything but ds
except_ds == <<execVars, conc, ps, tr, ch, uc, reg>>

\* everything but tr
except_tr == <<execVars, conc, ps, ds, ch, uc, reg>>

\* everything but ch
except_ch == <<execVars, conc, ps, ds, tr, uc, reg>>

\* everything but uc
except_uc == <<execVars, conc, ps, ds, tr, ch, reg>>

\* everything but reg
except_reg == <<execVars, conc, ps, ds, tr, ch, uc>>

NoRun == [measureStart |-> 0, tempFile |-> -1, executionStart |-> 0,
          output |-> Empty, error |-> Empty, timedOut |-> FALSE,
          timer |-> "unset", deadline |-> 0, settled |-> FALSE]

\* proc.state: "none", "running", "exited" (ended by itself), "killed" (ended
\* by SIGKILL), "failed" (could not be started), "errored" ('error' delivered),
\* "closed" ('close' delivered).  An exit code of -1 stands for the null that
\* 'close' reports for a process ended by a signal.  held: the write ends of
\* the stdout and stderr pipes are still open in a descendant of the process.
NoProc == [state |-> "none", exit |-> 0, pipeOut |-> Empty, pipeErr |-> Empty,
           held |-> FALSE]

\* the two concurrent calls and the source each one carries
ExecIds == {"A", "B"}

CodeOf == [e \in ExecIds |-> IF e = "A" THEN SrcHello.text ELSE SrcDiv.text]

NoConc == [clock    |-> 0,
           files    |-> {},
           pc       |-> [e \in ExecIds |-> "idle"],
           tempFile |-> [e \in ExecIds |-> -1],
           opened   |-> [e \in ExecIds |-> Null]]

\* the tool before a call of execute
InitExecute ==
    /\ pc = "idle"
    /\ params = NoParams
    /\ now = 0
    /\ fs \in {[dir |-> d, files |-> {}] : d \in BOOLEAN}
    /\ spawns = <<>>
    /\ records = <<>>
    /\ run = NoRun
    /\ proc = NoProc
    /\ completion = [kind |-> "none"]
    /\ ret = [kind |-> "none"]
    /\ hist = [ended |-> "no", lateTimer |-> FALSE, io |-> "ok", log |-> "none"]

\* the tokens of the captured outputs parseOutput is applied to: the two
\* sentinels, a word and a blank
ParseTokens == {OUTPUT_START, OUTPUT_END, "x", " "}

\* all texts of at most n tokens
RECURSIVE TextsUpTo(_, _)
TextsUpTo(tokens, n) ==
    IF n = 0 THEN {Empty}
    ELSE LET shorter == TextsUpTo(tokens, n - 1)
         IN  shorter \cup {Append(t, tok) : t \in {u \in shorter : Len(u) = n - 1},
                                            tok \in tokens}

\* the extraction applied to a captured output: the output, where the run
\* stands ("given", "parsed", "reparsed"), parseOutput of the output, and
\* parseOutput of that result
NoParse == [input |-> Empty, step |-> "none", result |-> Null, again |-> Null]

\* DeepSearch: the clock in hours, the rows of search_results in creation
\* order, the number of LLM requests made, and the call in progress
NoSearch == [clock |-> 1, rows |-> <<>>, llmCalls |-> 0, calls |-> 0,
             pc |-> "idle", query |-> Empty, lookup |-> "none",
             result |-> Null, ret |-> [kind |-> "none"]]

\* the names of the four builtin tools
BuiltinTools == {"deep_search", "python_execution", "file_processing", "web_browsing"}

\* POST /api/tools: the request being handled, the tool result (executed:
\* whether execute has returned one), the response, the 'tool' messages
\* stored so far, and the number of requests handled
NoToolsRoute == [pc |-> "idle", req |-> NoParams, result |-> [executed |-> FALSE],
                 response |-> [status |-> 0], messages |-> <<>>, handled |-> 0]

\* POST /api/chat: the request being handled, the conversation it works on,
\* the response, the conversations and messages in the database, those that
\* were there when the request came in, and the number of requests handled
NoChatRoute == [pc |-> "idle", req |-> NoParams, conversation |-> "",
                response |-> [status |-> 0],
                conversations |-> {"c1"}, messages |-> <<>>,
                before |-> [conversations |-> {"c1"}, messages |-> <<>>],
                handled |-> 0]

\* the calls of sendMessage that are followed
SendIds == 1..MaxSends

\* useChat (after createWelcomeConversation; a message is a role and a
\* content: 0 the welcome text, k the text of call k or the answer to it, -k
\* the error text of call k): the messages of currentConversation in the
\* React state, the
\* messages of the currentConversation the last render gave to sendMessage,
\* and per call of sendMessage its position and its updatedMessages
NoUseChat == [state    |-> <<[role |-> "assistant", content |-> 0]>>,
              rendered |-> <<[role |-> "assistant", content |-> 0]>>,
              pc       |-> [k \in SendIds |-> "none"],
              updatedMessages |-> [k \in SendIds |-> <<>>]]

\* a JavaScript Map as the sequence of its entries in insertion order
MapHas(map, key) == \E i \in 1..Len(map) : map[i].key = key

MapIndex(map, key) == CHOOSE i \in 1..Len(map) : map[i].key = key

\* Map.prototype.get: the value, or undefined
MapGet(map, key) ==
    IF MapHas(map, key) THEN map[MapIndex(map, key)].value ELSE Undefined

\* a set that always adds an entry, also for a key that is present
MapSet_Append(map, key, value) == Append(map, [key |-> key, value |-> value])

\* Map.prototype.set: replaces the value of a key that is present (the entry
\* keeps its place), adds an entry at the end otherwise
MapSet(map, key, value) ==
    IF MapHas(map, key)
    THEN [map EXCEPT ![MapIndex(map, key)].value = value]
    ELSE Append(map, [key |-> key, value |-> value])

\* Map.prototype.delete
MapDelete(map, key) ==
    LET keep == {i \in 1..Len(map) : map[i].key # key}
        RECURSIVE Pick(_)
        Pick(i) == IF i > Len(map) THEN <<>>
                   ELSE IF i \in keep THEN <<map[i]>> \o Pick(i + 1) ELSE Pick(i + 1)
    IN  Pick(1)

\* a tool object: its name and which implementation it is
ToolObject(name, impl) == <<name, impl>>

\* tool.name
NameOf(tool) == tool[1]

\* registerBuiltinTools: the four builtin tools, set in this order
registerBuiltinTools ==
    LET t1 == MapSet(<<>>, "deep_search", ToolObject("deep_search", "builtin"))
        t2 == MapSet(t1, "python_execution", ToolObject("python_execution", "builtin"))
        t3 == MapSet(t2, "file_processing", ToolObject("file_processing", "builtin"))
    IN  MapSet(t3, "web_browsing", ToolObject("web_browsing", "builtin"))

\* a ToolRegistry after its constructor: the map of tools, and the calls made
\* on it so far with the last one
NoRegistry == [tools |-> registerBuiltinTools, ops |-> 0,
               last |-> [op |-> "constructor", name |-> ""]]

Init ==
    /\ reg = NoRegistry
    /\ uc = NoUseChat
    /\ ch = NoChatRoute
    /\ tr = NoToolsRoute
    /\ ds = NoSearch
    /\ ps = NoParse
    /\ conc = NoConc
    /\ InitExecute

-----------------------------------------------------------------------------
(* execute: validation, pre-filter, start of executePythonCode *)

\* execute(parameters) up to its first await.  A validation or pre-filter
\* failure throws out of measureExecutionTime and so out of execute.
\* Otherwise executePythonCode names the script after Date.now() and
\* ensureTempDir spawns `mkdir -p`.
Execute(parameters) ==
    /\ pc = "idle"
    /\ params' = parameters
    /\ LET gate == ExecuteGate(parameters) IN
       \/ /\ gate = "missing"
          /\ pc' = "thrown"
          /\ ret' = [kind |-> "throw",
                     message |-> <<"Missing required parameters: ", "code">>]
          /\ UNCHANGED <<spawns, run>>
       \/ /\ gate = "unsafe"
          /\ pc' = "thrown"
          /\ ret' = [kind |-> "throw",
                     message |-> <<"Code contains potentially unsafe operations">>]
          /\ UNCHANGED <<spawns, run>>
       \/ /\ gate = "run"
          /\ pc' = "mkdir"
          /\ run' = [run EXCEPT !.measureStart = now, !.tempFile = now]
          /\ spawns' = Spawn(spawns, "mkdir")
          /\ UNCHANGED ret
    /\ UNCHANGED <<now, fs, records, proc, completion, hist, others>>

\* ensureTempDir: 'close' of mkdir with its exit code.  Zero resolves; the
\* script is wrapped and writeFile starts.  Non-zero rejects: the catch block
\* builds the result and the finally block starts unlink.
MkdirClose(code) ==
    /\ pc = "mkdir"
    /\ IF code = 0
       THEN /\ fs' = [fs EXCEPT !.dir = TRUE]
            /\ pc' = "writeFile"
            /\ UNCHANGED <<completion, hist>>
       ELSE /\ completion' = CatchBlock(params.code, <<"Failed to create directory: ", "1">>)
            /\ pc' = "unlink"
            /\ hist' = [hist EXCEPT !.io = "mkdir"]
            /\ UNCHANGED fs
    /\ UNCHANGED <<params, now, spawns, records, run, proc, ret, others>>

\* ensureTempDir: mkdir could not be started.  The child emits 'error', for
\* which ensureTempDir registers no listener: the event is rethrown inside the
\* event loop, 'close' is never emitted and the promise never settles.
MkdirError ==
    /\ pc = "mkdir"
    /\ pc' = "hung"
    /\ hist' = [hist EXCEPT !.io = "mkdirSpawn"]
    /\ UNCHANGED <<params, now, fs, spawns, records, run, proc, completion, ret, others>>

\* writeFile settles.  On success the script exists, executionStart is read
\* and runPythonProcess spawns python3 and arms the timer; the spawn either
\* starts the interpreter or fails (the 'error' event follows).  On failure
\* the catch block builds the result and the finally block starts unlink.
WriteFileDone(ok, started) ==
    /\ pc = "writeFile"
    /\ IF ok
       THEN /\ fs.dir
            /\ fs' = [fs EXCEPT !.files = @ \cup {run.tempFile}]
            /\ run' = [run EXCEPT !.executionStart = now,
                                  !.timer = "armed",
                                  !.deadline = now + TimeoutOf(params) * 1000]
            /\ spawns' = Spawn(spawns, "python3")
            /\ proc' = [NoProc EXCEPT !.state = IF started THEN "running" ELSE "failed"]
            /\ hist' = [hist EXCEPT !.ended = IF started THEN "no" ELSE "failed"]
            /\ pc' = "running"
            /\ UNCHANGED completion
       ELSE /\ started
            /\ completion' = CatchBlock(params.code, <<"ENOSPC: no space left on device, write">>)
            /\ pc' = "unlink"
            /\ hist' = [hist EXCEPT !.io = "write"]
            /\ UNCHANGED <<fs, run, spawns, proc>>
    /\ UNCHANGED <<params, now, records, ret, others>>

-----------------------------------------------------------------------------
(* runPythonProcess: the process, its pipes, the timer and the handlers *)

\* The interpreter ends by itself: its output is in the pipes (when stdio is
\* 'pipe'; with 'inherit' nothing is captured) and its exit code is known.
ProcExit ==
    /\ proc.state = "running"
    /\ LET p == wrapCodeWithSafety(BehaviourOf(params.code)) IN
       /\ p.ends
       /\ proc' = [state   |-> "exited",
                   exit    |-> p.exit,
                   pipeOut |-> IF CaptureOf(params) THEN p.stdout ELSE Empty,
                   pipeErr |-> IF CaptureOf(params) THEN p.stderr ELSE Empty,
                   held    |-> CaptureOf(params) /\ p.descendant]
    /\ hist' = [hist EXCEPT !.ended = "self"]
    /\ UNCHANGED <<pc, params, now, fs, spawns, records, run, completion, ret, others>>

\* stdout 'data': output += data.toString()
StdoutData ==
    /\ proc.pipeOut # Empty
    /\ run' = [run EXCEPT !.output = @ \o proc.pipeOut]
    /\ proc' = [proc EXCEPT !.pipeOut = Empty]
    /\ UNCHANGED <<pc, params, now, fs, spawns, records, completion, ret, hist, others>>

\* stderr 'data': error += data.toString()
StderrData ==
    /\ proc.pipeErr # Empty
    /\ run' = [run EXCEPT !.error = @ \o proc.pipeErr]
    /\ proc' = [proc EXCEPT !.pipeErr = Empty]
    /\ UNCHANGED <<pc, params, now, fs, spawns, records, completion, ret, hist, others>>

\* The setTimeout callback, at or after the deadline: timedOut = true and
\* kill('SIGKILL').  The signal ends a running process and does nothing to
\* one that has already ended.  (A failed spawn emits 'error' on the next
\* tick, before any timer can run.)
TimerFire ==
    /\ run.timer = "armed"
    /\ now >= run.deadline
    /\ proc.state # "failed"
    /\ run' = [run EXCEPT !.timedOut = TRUE, !.timer = "fired"]
    /\ IF proc.state = "running"
       THEN /\ proc' = [proc EXCEPT !.state = "killed", !.exit = -1]
            /\ hist' = [hist EXCEPT !.ended = "killed"]
       ELSE /\ hist' = [hist EXCEPT !.lateTimer = TRUE]
            /\ UNCHANGED proc
    /\ UNCHANGED <<pc, params, now, fs, spawns, records, completion, ret, others>>

\* a handler that leaves the timer armed
ClearTimeout_Skip(timer) == timer

\* clearTimeout(timeoutId)
ClearTimeout(timer) == IF timer = "armed" THEN "cleared" ELSE timer

\* a promise that every call of resolve settles anew
Resolve_Always(result) ==
    /\ completion' = TryReturn(result, params.code, now - run.executionStart)
    /\ pc' = IF run.settled THEN pc ELSE "unlink"

\* resolve(result): the first call settles the promise; executePythonCode
\* resumes, reads Date.now() and returns, and its finally block starts unlink.
\* A later call does nothing.
Resolve(result) ==
    IF run.settled
    THEN UNCHANGED <<pc, completion>>
    ELSE /\ completion' = TryReturn(result, params.code, now - run.executionStart)
         /\ pc' = "unlink"

\* The 'close' handler: the process has ended and its stdio streams have
\* closed, which they do once drained and open in no other process.
ProcClose ==
    /\ proc.state \in {"exited", "killed", "errored"}
    /\ proc.pipeOut = Empty /\ proc.pipeErr = Empty
    /\ ~proc.held
    /\ proc' = [proc EXCEPT !.state = "closed"]
    /\ run' = [run EXCEPT !.timer = ClearTimeout(@), !.settled = TRUE]
    /\ IF run.timedOut
       THEN Resolve(TimeoutResult(TimeoutOf(params)))
       ELSE Resolve(CloseResult(run.output, run.error, proc.exit))
    /\ UNCHANGED <<params, now, fs, spawns, records, ret, hist, others>>

\* The 'error' handler: the interpreter could not be started.  'close' (with
\* a negative code) follows later.
ProcError ==
    /\ proc.state = "failed"
    /\ proc' = [proc EXCEPT !.state = "errored", !.exit = -2]
    /\ run' = [run EXCEPT !.timer = ClearTimeout(@), !.settled = TRUE]
    /\ Resolve(ErrorResult(<<"spawn python3 ENOENT">>))
    /\ UNCHANGED <<params, now, fs, spawns, records, ret, hist, others>>

-----------------------------------------------------------------------------
(* executePythonCode: finally; execute: logExecution and return *)

\* unlink(tempFile) settles (a failure is caught and printed).  A completion
\* that is a throw leaves execute here; a result goes on to logExecution.
UnlinkDone ==
    /\ pc = "unlink"
    /\ fs' = [fs EXCEPT !.files = Unlink(@, run.tempFile)]
    /\ IF completion.kind = "throw"
       THEN /\ pc' = "thrown"
            /\ ret' = [kind |-> "throw", message |-> completion.value]
       ELSE /\ pc' = "log"
            /\ UNCHANGED ret
    /\ UNCHANGED <<params, now, spawns, records, run, proc, completion, hist, others>>

\* logExecution, in the database: the upsert and the create are carried out
\* and the row exists, or one of them fails.  execute is still awaiting
\* logExecution.
LogWrite(ok) ==
    /\ pc = "log"
    /\ LET outcome == logExecution(ok) IN
       /\ records' = IF outcome = "created"
                     THEN Append(records, ExecutionRecord(params.code, completion.value))
                     ELSE records
       /\ hist' = [hist EXCEPT !.log = IF outcome = "created" THEN "ok" ELSE "failed"]
       /\ IF outcome = "thrown"
          THEN /\ pc' = "thrown"
               /\ ret' = [kind |-> "throw", message |-> <<"PrismaClientKnownRequestError">>]
          ELSE /\ pc' = "logged"
               /\ UNCHANGED ret
    /\ UNCHANGED <<params, now, fs, spawns, run, proc, completion, others>>

\* await logExecution settles: measureExecutionTime reads Date.now() and
\* execute returns the tool result.
LogDone ==
    /\ pc = "logged"
    /\ ret' = [kind  |-> "return",
               value |-> ToolResult(completion.value, now - run.measureStart)]
    /\ pc' = "returned"
    /\ UNCHANGED <<params, now, fs, spawns, records, run, proc, completion, hist, others>>

\* time passes while the call is in flight; the clock is followed up to
\* MaxClock and, beyond it, up to the deadline of an armed timer
Tick ==
    /\ pc \in {"mkdir", "writeFile", "running", "unlink", "log", "logged"}
    /\ now < MaxClock \/ (run.timer = "armed" /\ now < run.deadline)
    /\ now' = now + TickMs
    /\ UNCHANGED <<pc, params, fs, spawns, records, run, proc, completion, ret, hist, others>>

Next ==
    \/ \E parameters \in ParamObjects : Execute(parameters)
    \/ \E code \in {0, 1} : MkdirClose(code)
    \/ MkdirError
    \/ \E ok \in BOOLEAN, started \in BOOLEAN : WriteFileDone(ok, started)
    \/ ProcExit
    \/ StdoutData
    \/ StderrData
    \/ TimerFire
    \/ ProcClose
    \/ ProcError
    \/ UnlinkDone
    \/ \E ok \in BOOLEAN : LogWrite(ok)
    \/ LogDone
    \/ Tick

Spec == Init /\ [][Next]_vars

\* Scheduling: the event loop runs every callback that is ready (timer,
\* stream and process events, settled promises), the operating system ends
\* a process that exits or is killed, and time passes.
FairSpec ==
    /\ Spec
    /\ WF_vars(\E code \in {0, 1} : MkdirClose(code))
    /\ WF_vars(\E ok \in BOOLEAN, started \in BOOLEAN : WriteFileDone(ok, started))
    /\ WF_vars(ProcExit)
    /\ WF_vars(StdoutData)
    /\ WF_vars(StderrData)
    /\ WF_vars(TimerFire)
    /\ WF_vars(ProcClose)
    /\ WF_vars(ProcError)
    /\ WF_vars(UnlinkDone)
    /\ WF_vars(\E ok \in BOOLEAN : LogWrite(ok))
    /\ WF_vars(LogDone)
    /\ WF_vars(Tick)

-----------------------------------------------------------------------------
(* Two calls of execute at once: the script path and the script file *)

InFlight(e) == conc.pc[e] \in {"mkdir", "writeFile", "running", "opened", "unlink"}

\* the content of the file at a path, or Null when there is no such file
ContentAt(files, path) ==
    IF \E f \in files : f[1] = path
    THEN (CHOOSE f \in files : f[1] = path)[2]
    ELSE Null

\* writeFile(path, content): creates the file or replaces its content
WriteFile(files, path, content) ==
    {f \in files : f[1] # path} \cup {<<path, content>>}

\* execute up to its first await: tempFile = script_${Date.now()}.py and
\* ensureTempDir spawns mkdir
ConcExecute(e) ==
    /\ conc.pc[e] = "idle"
    /\ conc' = [conc EXCEPT !.pc[e] = "mkdir", !.tempFile[e] = conc.clock]
    /\ UNCHANGED except_conc

\* 'close' of mkdir with code 0: writeFile(tempFile, wrappedCode) starts
ConcMkdirClose(e) ==
    /\ conc.pc[e] = "mkdir"
    /\ conc' = [conc EXCEPT !.pc[e] = "writeFile"]
    /\ UNCHANGED except_conc

\* writeFile settles: the script holds the wrapped source of this call;
\* python3 is spawned with the script path
ConcWriteFileDone(e) ==
    /\ conc.pc[e] = "writeFile"
    /\ conc' = [conc EXCEPT !.pc[e] = "running",
                            !.files = WriteFile(@, conc.tempFile[e], CodeOf[e])]
    /\ UNCHANGED except_conc

\* the interpreter opens the script at its path and runs what it finds
ConcPythonOpen(e) ==
    /\ conc.pc[e] = "running"
    /\ conc' = [conc EXCEPT !.pc[e] = "opened",
                            !.opened[e] = ContentAt(conc.files, conc.tempFile[e])]
    /\ UNCHANGED except_conc

\* 'close' of the interpreter: runPythonProcess resolves and the finally
\* block starts unlink
ConcProcClose(e) ==
    /\ conc.pc[e] = "opened"
    /\ conc' = [conc EXCEPT !.pc[e] = "unlink"]
    /\ UNCHANGED except_conc

\* unlink(tempFile) settles and the call goes on to its return
ConcUnlinkDone(e) ==
    /\ conc.pc[e] = "unlink"
    /\ conc' = [conc EXCEPT !.pc[e] = "done",
                            !.files = {f \in @ : f[1] # conc.tempFile[e]}]
    /\ UNCHANGED except_conc

\* a millisecond passes
ConcTick ==
    /\ conc.clock < MaxConcClock
    /\ \E e \in ExecIds : conc.pc[e] # "done"
    /\ conc' = [conc EXCEPT !.clock = @ + 1]
    /\ UNCHANGED except_conc

NextConc ==
    \/ \E e \in ExecIds : ConcExecute(e)
    \/ \E e \in ExecIds : ConcMkdirClose(e)
    \/ \E e \in ExecIds : ConcWriteFileDone(e)
    \/ \E e \in ExecIds : ConcPythonOpen(e)
    \/ \E e \in ExecIds : ConcProcClose(e)
    \/ \E e \in ExecIds : ConcUnlinkDone(e)
    \/ ConcTick

SpecConc == Init /\ [][NextConc]_vars

-----------------------------------------------------------------------------
(* Properties *)

\* the source of the call is rejected by the denylist
Denylisted == "code" \in DOMAIN params /\ containsUnsafeOperations(params.code)

\* runPythonProcess has resolved after the process ended by itself and the
\* timer had not fired
CompletedInTime ==
    completion.kind = "return" /\ hist.ended = "self" /\ ~run.timedOut

HasErrorPair(text) ==
    IndexOf(text, ERROR_START) # -1 /\ IndexOf(text, ERROR_END) # -1

Contains(text, tok) == \E i \in 1..Len(text) : text[i] = tok

\* C1: a call whose source matches a denylisted pattern ends by returning a
\* result whose status is 'error'.
C1_RejectionIsErrorResult ==
    (pc \in {"returned", "thrown"} /\ Denylisted)
        => (ret.kind = "return" /\ ret.value.data.status = "error")

\* C2: while the call's source is denylisted no step has any effect on the
\* file system, the spawned commands, the interpreter process or the
\* execution records, and no process exists.
C2_RejectionHasNoEffect ==
    [][ ("code" \in DOMAIN params' /\ containsUnsafeOperations(params'.code))
            => /\ fs' = fs /\ spawns' = spawns /\ records' = records
               /\ proc' = proc /\ proc.state = "none" ]_vars

C2_Witness ==
    pc = "thrown" /\ Denylisted /\ spawns = <<>> /\ records = <<>> /\ fs.files = {}

\* C3: the result is 'timeout' exactly when the timer killed the process.
C3_TimeoutIffKilled ==
    completion.kind = "return"
        => (completion.value.status = "timeout" <=> hist.ended = "killed")

\* C4: a completion in time with exit code zero and no error sentinel pair in
\* the captured streams is 'success'; one with a non-zero exit code or an
\* extracted error segment is 'error'.
C4_StatusByExitAndSentinel ==
    CompletedInTime =>
        /\ (proc.exit = 0 /\ ~HasErrorPair(run.error) /\ ~HasErrorPair(run.output))
              => completion.value.status = "success"
        /\ (proc.exit # 0 \/ HasErrorPair(run.error))
              => completion.value.status = "error"

\* C5: for the source that prints hello, the captured stdout holds the output
\* between the output sentinels and the result is output "hello", status
\* 'success', error null.
C5_HelloRoundTrip ==
    (CompletedInTime /\ params.code = SrcHello.text /\ CaptureOf(params))
        => /\ IndexOf(run.output, OUTPUT_START) # -1
           /\ IndexOf(run.output, OUTPUT_END) # -1
           /\ completion.value.output = <<"hello">>
           /\ completion.value.status = "success"
           /\ completion.value.error = Null

\* the print(1/0) scenario: default 30 s timeout, output captured, the
\* process ended by itself before the timer fired
DivScenario ==
    /\ CompletedInTime
    /\ params.code = SrcDiv.text
    /\ TimeoutOf(params) = 30
    /\ CaptureOf(params)

\* C6 as stated: in the print(1/0) scenario the process exits non-zero, the
\* error contains the division-by-zero diagnostic and the status is 'error'.
C6_DivExitsNonZero ==
    DivScenario
        => /\ proc.exit # 0
           /\ Contains(completion.value.error, "ZeroDivisionError: division by zero")
           /\ completion.value.status = "error"

\* C6 amended: in the print(1/0) scenario the process exits with code zero,
\* the error contains the division-by-zero diagnostic and the status is
\* 'error'.
C6_DivReportedAsError ==
    DivScenario
        => /\ proc.exit = 0
           /\ Contains(completion.value.error, "ZeroDivisionError: division by zero")
           /\ completion.value.status = "error"

C6_Witness ==
    DivScenario /\ pc = "returned" /\ ret.value.data.status = "error"

\* C7: when the user code raises, the error sentinels are in the stream that
\* parseError scans and the result's error is the trimmed text between them.
C7_ErrorIsSentinelSegment ==
    (CompletedInTime /\ CaptureOf(params) /\ BehaviourOf(params.code).end = "raise")
        => /\ HasErrorPair(run.error)
           /\ completion.value.error = <<"Error: ", BehaviourOf(params.code).msg>>

\* C8: when the timer killed the process, the result returned to the caller
\* has status 'timeout' and execution_time timeout * 1000.
C8_TimeoutDuration ==
    (pc = "returned" /\ hist.ended = "killed")
        => /\ ret.value.data.status = "timeout"
           /\ ret.value.data.execution_time = TimeoutOf(params) * 1000

\* C9: when the interpreter could not be started, the result returned to the
\* caller has status 'error', an error message, empty output and
\* execution_time zero.
C9_SpawnFailureResult ==
    (pc = "returned" /\ hist.ended = "failed")
        => /\ ret.value.data.status = "error"
           /\ Truthy(ret.value.data.error)
           /\ ret.value.data.output = Empty
           /\ ret.value.data.execution_time = 0

\* something went wrong in a call that passed validation and the pre-filter
Failed ==
    \/ hist.io # "ok"
    \/ hist.ended \in {"failed", "killed"}
    \/ hist.ended = "self" /\ proc.exit # 0

-----------------------------------------------------------------------------
(* Validation of the source text *)

\* the call carries no source text, or the empty string
NoSourceText == "code" \notin DOMAIN params \/ params.code = Empty

\* C11: a request whose source text is missing or is the empty string is
\* rejected (execute throws) before any process is spawned and before any
\* temp file is written.
C11_MissingOrEmptyRejected ==
    (pc # "idle" /\ NoSourceText) =>
        /\ pc = "thrown"
        /\ spawns = <<>>
        /\ fs.files = {}

-----------------------------------------------------------------------------
(* The temp script *)

C13_DistinctScriptPaths ==
    \A e1 \in ExecIds, e2 \in ExecIds :
        (e1 # e2 /\ InFlight(e1) /\ InFlight(e2)) =>
            conc.tempFile[e1] # conc.tempFile[e2]

-----------------------------------------------------------------------------
(* Persistence of the execution record *)

\* C14: if persisting the execution record fails (the user upsert or the
\* record creation throws), execute still returns the result it would have
\* returned had persistence succeeded; the error is not propagated to the
\* caller.
C14_LogFailureIsolated ==
    hist.log = "failed" =>
        /\ pc \in {"logged", "returned"}
        /\ ret.kind # "throw"
        /\ records = <<>>
        /\ pc = "returned" =>
              ret = [kind  |-> "return",
                     value |-> ToolResult(completion.value, now - run.measureStart)]

\* execute has returned a successful run whose record could not be stored
C14_Witness ==
    /\ pc = "returned"
    /\ hist.log = "failed"
    /\ ret.kind = "return"
    /\ ret.value.data.status = "success"
    /\ params.code = SrcHello.text

-----------------------------------------------------------------------------
(* Termination *)

\* C15: every execution whose interpreter process was spawned eventually
\* returns a result, even if the user script never terminates on its own.
C15_SpawnedEventuallyReturns ==
    ("python3" \in {spawns[i] : i \in 1..Len(spawns)}) ~> (pc = "returned")

-----------------------------------------------------------------------------
(* The stored records *)

\* the status values the schema documents for CodeExecution.status
DocumentedStatuses == {"running", "completed", "error", "timeout"}

\* C16: every CodeExecution record persisted has a status in the documented
\* set {running, completed, error, timeout}.
C16_RecordStatusDocumented ==
    \A i \in 1..Len(records) : records[i].status \in DocumentedStatuses

-----------------------------------------------------------------------------
(* The race of the deadline timer and the process *)

\* C17: the deadline timer and the process race and the loser is discarded.
\* Once a handler has determined the result the timer is no longer armed, so
\* it does not fire (no kill is sent) afterwards; a result determined without
\* the timer having fired has the timer cancelled; and the step in which the
\* timer fires sends SIGKILL at once: a process still running is ended in
\* that very step.
C17_TimerProcessRace ==
    /\ [](run.settled => run.timer # "armed")
    /\ []((run.settled /\ ~run.timedOut) => run.timer = "cleared")
    /\ [][ /\ run.settled => (run'.timedOut = run.timedOut /\ run'.timer = run.timer)
           /\ (run.timer = "armed" /\ run'.timer = "fired") =>
                 /\ ~run.settled
                 /\ run'.timedOut
                 /\ proc.state = "running" => proc'.state = "killed" ]_vars

\* the process completed by itself, the handler cancelled the timer, and the
\* deadline has passed without the timer firing
C17_Witness ==
    /\ run.settled
    /\ hist.ended = "self"
    /\ run.timer = "cleared"
    /\ ~run.timedOut
    /\ now >= run.deadline

-----------------------------------------------------------------------------
(* One outcome per execution *)

\* how many times a command was spawned
SpawnCount(command) == Cardinality({i \in 1..Len(spawns) : spawns[i] = command})

\* C18: each execution reaches exactly one terminal outcome: once the result
\* has been determined, no later step ('close' after 'error', the timer)
\* changes it, and the interpreter is never spawned a second time.
C18_OneTerminalOutcome ==
    /\ [][completion.kind # "none" => completion' = completion]_vars
    /\ [](SpawnCount("python3") <= 1)

\* 'close' has been handled after 'error' had determined the result, and the
\* result is still the one of the 'error' handler
C18_Witness ==
    /\ hist.ended = "failed"
    /\ proc.state = "closed"
    /\ completion.kind = "return"
    /\ completion.value.status = "error"
    /\ completion.value.error = <<"Process error: ", "spawn python3 ENOENT">>

\* C19: by the time the execution record of an execution is persisted, the
\* execution result has already been returned to the caller.
C19_ReturnedBeforePersisted ==
    records # <<>> => (pc = "returned" /\ ret.kind = "return")

-----------------------------------------------------------------------------
(* The external processes of a request *)

\* C20 as stated: each accepted execution request spawns exactly one external
\* process, the interpreter, and no other external process.
C20_OnlyInterpreterSpawned ==
    /\ \A i \in 1..Len(spawns) : spawns[i] = "python3"
    /\ pc = "returned" => Len(spawns) = 1

\* C20, amended: each accepted execution request first spawns `mkdir -p` for
\* the temp directory and then at most one interpreter, and nothing else; it
\* spawns exactly one interpreter when the directory and the script could be
\* created.  A rejected request spawns nothing.
C20_MkdirThenOneInterpreter ==
    /\ spawns \in {<<>>, <<"mkdir">>, <<"mkdir", "python3">>}
    /\ pc \notin {"idle", "thrown"} => spawns # <<>>
    /\ pc = "thrown" => spawns = <<>>
    /\ (pc = "returned" /\ hist.io = "ok") => spawns = <<"mkdir", "python3">>
    /\ hist.io # "ok" => spawns = <<"mkdir">>

\* execute has returned after spawning mkdir and then the interpreter
C20_Witness ==
    /\ pc = "returned"
    /\ hist.io = "ok"
    /\ spawns = <<"mkdir", "python3">>

-----------------------------------------------------------------------------
(* parseOutput as a function of the captured output *)

\* a captured output of at most MaxOutputLen tokens is given
InitParse ==
    /\ InitExecute
    /\ conc = NoConc
    /\ ds = NoSearch
    /\ tr = NoToolsRoute
    /\ ch = NoChatRoute
    /\ uc = NoUseChat
    /\ reg = NoRegistry
    /\ ps \in {[NoParse EXCEPT !.input = t, !.step = "given"] :
                  t \in TextsUpTo(ParseTokens, MaxOutputLen)}

\* parseOutput(output)
ParseApply ==
    /\ ps.step = "given"
    /\ ps' = [ps EXCEPT !.step = "parsed", !.result = parseOutput(ps.input)]
    /\ UNCHANGED except_ps

\* parseOutput applied to its own result
ParseAgain ==
    /\ ps.step = "parsed"
    /\ ps' = [ps EXCEPT !.step = "reparsed", !.again = parseOutput(ps.result)]
    /\ UNCHANGED except_ps

NextParse ==
    \/ ParseApply
    \/ ParseAgain

SpecParse == InitParse /\ [][NextParse]_vars

\* the captured output holds both output sentinels
HasOutputPair(text) ==
    IndexOf(text, OUTPUT_START) # -1 /\ IndexOf(text, OUTPUT_END) # -1

\* the text after the first start sentinel and before the first end sentinel
\* (empty when the end sentinel does not come after the start sentinel)
BetweenSentinels(text) ==
    SubSeq(text, IndexOf(text, OUTPUT_START) + 2, IndexOf(text, OUTPUT_END))

\* C21: for every captured output without a complete sentinel pair (neither
\* marker, or only one of the two) parseOutput returns the trimmed raw text,
\* and parseOutput of that result is the same text.
C21_FallbackIsTrimIdempotent ==
    ~HasOutputPair(ps.input) =>
        /\ ps.step \in {"parsed", "reparsed"} => ps.result = Trim(ps.input)
        /\ ps.step = "reparsed" => ps.again = ps.result

\* an output with only the start sentinel and surrounding whitespace has been
\* parsed twice
C21_Witness ==
    /\ ps.step = "reparsed"
    /\ ps.input = <<" ", OUTPUT_START, "x", " ">>
    /\ ps.result = <<OUTPUT_START, "x">>
    /\ ps.again = ps.result

\* C22: whenever the captured output contains both output sentinels,
\* parseOutput returns exactly the trimmed text after the start sentinel and
\* before the end sentinel, wherever the two markers stand.
C22_PairYieldsTextBetween ==
    (HasOutputPair(ps.input) /\ ps.step # "given") =>
        ps.result = Trim(BetweenSentinels(ps.input))

-----------------------------------------------------------------------------
(* Isolation of concurrent executions *)

\* C23: while an execution's interpreter has not finished, no other
\* execution overwrites or deletes that execution's temp script: the script
\* an interpreter opens is the wrapped source of its own request.
C23_RunsOwnSource ==
    \A e \in ExecIds :
        /\ conc.pc[e] = "running" =>
              ContentAt(conc.files, conc.tempFile[e]) = CodeOf[e]
        /\ conc.pc[e] \in {"opened", "unlink", "done"} =>
              conc.opened[e] = CodeOf[e]

-----------------------------------------------------------------------------
(* The error field of the tool result *)

\* C24: whenever execute returns success = false, the top-level error field
\* of the result holds a non-empty message, for status 'timeout' as well as
\* for status 'error'.
C24_FailureCarriesMessage ==
    (pc = "returned" /\ ~ret.value.success) =>
        /\ ret.value.error # Undefined
        /\ Truthy(ret.value.error)

-----------------------------------------------------------------------------
(* DeepSearch: execute, getCachedResult, performDeepSearch, cacheResult *)

\* BaseTool.sanitizeInput: the five special characters become entities
sanitizeInput(input) ==
    [i \in DOMAIN input |->
        CASE input[i] = "<"  -> "&lt;"
          [] input[i] = ">"  -> "&gt;"
          [] input[i] = "\"" -> "&quot;"
          [] input[i] = "'"  -> "&#x27;"
          [] input[i] = "&"  -> "&amp;"
          [] OTHER           -> input[i]]

\* the parameter objects of the calls that are followed
SearchParams ==
    {NoParams} \cup {("query" :> q) : q \in {<<"tla">>, <<"a", "<", "b">>}}

\* how long a cache row lives, in hours
CacheHours == 6

\* getCachedResult: the where clause of findFirst without the expiry test
Live_NoExpiry(row, query, t) == row.query = query

\* getCachedResult: the where clause of findFirst
Live(row, query, t) == row.query = query /\ row.expiresAt > t

\* getCachedResult: findFirst with orderBy createdAt desc; the rows it may
\* return (none when no row qualifies; rows created at the same instant are
\* returned in no fixed order)
FindFirst(rows, query, t) ==
    {i \in 1..Len(rows) :
        /\ Live(rows[i], query, t)
        /\ \A j \in 1..Len(rows) :
              Live(rows[j], query, t) => rows[j].createdAt <= rows[i].createdAt}

\* getCachedResult: the result built from a row
CachedResult(row) ==
    [query |-> row.query, summary |-> row.summary, sources |-> row.sources,
     total_sources |-> Len(row.sources), search_time |-> 0]

\* performDeepSearch: the result of a search that succeeded, and the
\* fallback of its catch block
SearchResultOf(query, t) ==
    [query |-> query, summary |-> "analysis", sources |-> <<"s1", "s2">>,
     total_sources |-> 2, search_time |-> t]

FallbackResult(query, t) ==
    [query |-> query, summary |-> "I encountered an error", sources |-> <<>>,
     total_sources |-> 0, search_time |-> t]

\* how the LLM request of performDeepSearch can end
SearchOutcomes == {"ok", "httpError", "noContent", "badJson"}

\* execute up to its first await: validation, sanitizeInput, and the start
\* of getCachedResult
DeepSearchExecute(parameters) ==
    /\ ds.pc = "idle"
    /\ ds.calls < MaxSearchCalls
    /\ IF ~validateParameters(parameters, {"query"}).isValid
       THEN ds' = [ds EXCEPT !.calls = @ + 1, !.lookup = "none", !.result = [executed |-> FALSE],
                             !.ret = [kind |-> "throw",
                                      message |-> <<"Missing required parameters: ", "query">>]]
       ELSE ds' = [ds EXCEPT !.calls = @ + 1, !.pc = "lookup", !.lookup = "none",
                             !.query = sanitizeInput(parameters.query),
                             !.result = [executed |-> FALSE], !.ret = [kind |-> "none"]]
    /\ UNCHANGED except_ds

\* getCachedResult settles.  findFirst fails (the error is caught and
\* printed) or finds no row: performDeepSearch sends its LLM request.
\* findFirst returns a row: execute returns the cached result.
GetCachedResult(ok) ==
    /\ ds.pc = "lookup"
    /\ LET found == IF ok THEN FindFirst(ds.rows, ds.query, ds.clock) ELSE {} IN
       IF found = {}
       THEN ds' = [ds EXCEPT !.pc = "search", !.llmCalls = @ + 1,
                             !.lookup = IF ok THEN "miss" ELSE "failed"]
       ELSE \E i \in found :
               ds' = [ds EXCEPT !.pc = "idle", !.lookup = "hit",
                                !.result = CachedResult(ds.rows[i]),
                                !.ret = [kind |-> "return", value |-> CachedResult(ds.rows[i])]]
    /\ UNCHANGED except_ds

\* performDeepSearch settles: the parsed answer, or the fallback of the catch
\* block; cacheResult starts
PerformDeepSearch(outcome) ==
    /\ ds.pc = "search"
    /\ ds' = [ds EXCEPT !.pc = "store",
                        !.result = IF outcome = "ok"
                                   THEN SearchResultOf(ds.query, ds.clock)
                                   ELSE FallbackResult(ds.query, ds.clock)]
    /\ UNCHANGED except_ds

\* cacheResult settles: the row is created with expiresAt six hours ahead, or
\* the create fails (the error is caught and printed); execute returns the
\* search result
CacheResult(ok) ==
    /\ ds.pc = "store"
    /\ ds' = [ds EXCEPT !.pc = "idle",
                        !.rows = IF ok
                                 THEN Append(@, [query     |-> ds.query,
                                                 summary   |-> ds.result.summary,
                                                 sources   |-> ds.result.sources,
                                                 createdAt |-> ds.clock,
                                                 expiresAt |-> ds.clock + CacheHours])
                                 ELSE @,
                        !.ret = [kind |-> "return", value |-> ds.result]]
    /\ UNCHANGED except_ds

\* an hour passes
SearchTick ==
    /\ ds.clock < MaxSearchClock
    /\ ds' = [ds EXCEPT !.clock = @ + 1]
    /\ UNCHANGED except_ds

NextSearch ==
    \/ \E parameters \in SearchParams : DeepSearchExecute(parameters)
    \/ \E ok \in BOOLEAN : GetCachedResult(ok)
    \/ \E outcome \in SearchOutcomes : PerformDeepSearch(outcome)
    \/ \E ok \in BOOLEAN : CacheResult(ok)
    \/ SearchTick

SpecSearch == Init /\ [][NextSearch]_vars

\* C25: DeepSearch stores a cache entry only for a search that succeeded: the
\* fallback result of a failed LLM call or an unparsable answer is never a
\* row of the cache.
C25_OnlySuccessCached ==
    \A i \in 1..Len(ds.rows) :
        /\ ds.rows[i].summary # "I encountered an error"
        /\ ds.rows[i].sources # <<>>

\* row i is for the query of the call in progress and has not expired
Fresh(i) == ds.rows[i].query = ds.query /\ ds.rows[i].expiresAt > ds.clock

\* row i is a most recently created fresh row
Latest(i) ==
    /\ Fresh(i)
    /\ \A j \in 1..Len(ds.rows) : Fresh(j) => ds.rows[j].createdAt <= ds.rows[i].createdAt

\* the step in which getCachedResult settles gives execute's caller a most
\* recently created fresh row with search_time 0, with no LLM request and no
\* new row
ServedFromCache ==
    /\ ds'.ret.kind = "return"
    /\ \E i \in 1..Len(ds.rows) :
          /\ Latest(i)
          /\ ds'.ret.value = [query |-> ds.rows[i].query,
                              summary |-> ds.rows[i].summary,
                              sources |-> ds.rows[i].sources,
                              total_sources |-> Len(ds.rows[i].sources),
                              search_time |-> 0]
    /\ ds'.llmCalls = ds.llmCalls
    /\ ds'.rows = ds.rows
    /\ ds'.pc = "idle"

-----------------------------------------------------------------------------
(* POST /api/tools *)

\* the conversations that exist in the database
Conversations == {"c1"}

\* the request bodies that are followed: toolName, parameters and
\* conversationId may each be absent
ToolRequests ==
    { n @@ p @@ c :
        n \in {NoParams} \cup {("toolName" :> t) : t \in {"python_execution", "no_such_tool"}},
        p \in {NoParams} \cup {("parameters" :> ("code" :> SrcHello.text))},
        c \in {NoParams} \cup {("conversationId" :> id) : id \in {"c1", "c9"}} }

\* the object a tool's execute returns
ToolOutcome(success) == [executed |-> TRUE, success |-> success]

\* NextResponse.json({ result })
ResultResponse(result) == [status |-> 200, result |-> result]

\* the response of the catch block
FailedResponse == [status |-> 500, error |-> "Failed to execute tool"]

\* POST up to `await tool.execute(parameters)`: 400 without toolName or
\* parameters, 404 for an unknown tool
ToolsPost(req) ==
    /\ tr.pc = "idle"
    /\ tr.handled < MaxToolRequests
    /\ IF "toolName" \notin DOMAIN req \/ "parameters" \notin DOMAIN req
       THEN tr' = [tr EXCEPT !.req = req, !.handled = @ + 1, !.result = [executed |-> FALSE],
                             !.response = [status |-> 400,
                                           error |-> "Tool name and parameters are required"]]
       ELSE IF req.toolName \notin BuiltinTools
       THEN tr' = [tr EXCEPT !.req = req, !.handled = @ + 1, !.result = [executed |-> FALSE],
                             !.response = [status |-> 404, error |-> "Tool not found"]]
       ELSE tr' = [tr EXCEPT !.req = req, !.handled = @ + 1, !.result = [executed |-> FALSE],
                             !.response = [status |-> 0], !.pc = "execute"]
    /\ UNCHANGED except_tr

\* tool.execute settles: it throws (the catch block answers 500) or returns a
\* result; with a conversationId prisma.message.create starts, without one
\* the result is the response
ToolExecuteDone(outcome) ==
    /\ tr.pc = "execute"
    /\ IF outcome = "throw"
       THEN tr' = [tr EXCEPT !.pc = "idle", !.response = FailedResponse]
       ELSE LET result == ToolOutcome(outcome = "success") IN
            IF "conversationId" \in DOMAIN tr.req
            THEN tr' = [tr EXCEPT !.pc = "persist", !.result = result]
            ELSE tr' = [tr EXCEPT !.pc = "idle", !.result = result,
                                  !.response = ResultResponse(result)]
    /\ UNCHANGED except_tr

\* prisma.message.create settles: the 'tool' message is stored and the result
\* is the response, or the create throws (no such conversation, or the
\* database fails) and the catch block answers
ToolMessageCreate(ok) ==
    /\ tr.pc = "persist"
    /\ IF ok /\ tr.req.conversationId \in Conversations
       THEN tr' = [tr EXCEPT !.pc = "idle",
                             !.messages = Append(@, [conversationId |-> tr.req.conversationId,
                                                     role |-> "tool",
                                                     tool |-> tr.req.toolName,
                                                     result |-> tr.result]),
                             !.response = ResultResponse(tr.result)]
       ELSE tr' = [tr EXCEPT !.pc = "idle", !.response = FailedResponse]
    /\ UNCHANGED except_tr

NextTools ==
    \/ \E req \in ToolRequests : ToolsPost(req)
    \/ \E outcome \in {"success", "failure", "throw"} : ToolExecuteDone(outcome)
    \/ \E ok \in BOOLEAN : ToolMessageCreate(ok)

SpecTools == Init /\ [][NextTools]_vars

\* C27: when a tool's execute returns a result, POST /api/tools responds with
\* that result, also when persisting the 'tool' message fails.
C27_ResultIsTheResponse ==
    (tr.pc = "idle" /\ tr.result.executed) => tr.response = ResultResponse(tr.result)

-----------------------------------------------------------------------------
(* POST /api/chat *)

\* the request bodies that are followed: message and conversationId may each
\* be absent; "c1" exists, "c9" does not
ChatRequests ==
    { m @@ c :
        m \in {NoParams} \cup {("message" :> "hi")},
        c \in {NoParams} \cup {("conversationId" :> id) : id \in {"c1", "c9"}} }

\* the id of the conversation the n-th request creates
NewConversationId(n) == IF n = 1 THEN "n1" ELSE IF n = 2 THEN "n2" ELSE "n3"

\* the response of the catch block
ChatFailed == [status |-> 500, error |-> "Failed to process chat message"]

\* POST up to its first database call: 400 without a message; findUnique for
\* a given conversationId; otherwise the user upsert and conversation.create
ChatPost(req) ==
    /\ ch.pc = "idle"
    /\ ch.handled < MaxChatRequests
    /\ LET start == [ch EXCEPT !.req = req, !.handled = @ + 1, !.conversation = "",
                               !.before = [conversations |-> ch.conversations,
                                           messages |-> ch.messages]] IN
       IF "message" \notin DOMAIN req
       THEN ch' = [start EXCEPT !.response = [status |-> 400, error |-> "Message is required"]]
       ELSE IF "conversationId" \in DOMAIN req
       THEN ch' = [start EXCEPT !.response = [status |-> 0], !.pc = "find"]
       ELSE ch' = [start EXCEPT !.response = [status |-> 0], !.pc = "create"]
    /\ UNCHANGED except_ch

\* conversation.findUnique settles: the conversation, null (404), or an error
ChatFindUnique(ok) ==
    /\ ch.pc = "find"
    /\ IF ~ok
       THEN ch' = [ch EXCEPT !.pc = "idle", !.response = ChatFailed]
       ELSE IF ch.req.conversationId \in ch.conversations
       THEN ch' = [ch EXCEPT !.pc = "saveUser", !.conversation = ch.req.conversationId]
       ELSE ch' = [ch EXCEPT !.pc = "idle",
                             !.response = [status |-> 404, error |-> "Conversation not found"]]
    /\ UNCHANGED except_ch

\* user.upsert and conversation.create settle: the new conversation exists,
\* or one of the two calls failed
ChatCreateConversation(ok) ==
    /\ ch.pc = "create"
    /\ IF ok
       THEN ch' = [ch EXCEPT !.pc = "saveUser",
                             !.conversation = NewConversationId(ch.handled),
                             !.conversations = @ \cup {NewConversationId(ch.handled)}]
       ELSE ch' = [ch EXCEPT !.pc = "idle", !.response = ChatFailed]
    /\ UNCHANGED except_ch

\* message.create for the user message settles; on success the LLM request
\* is sent
ChatSaveUserMessage(ok) ==
    /\ ch.pc = "saveUser"
    /\ IF ok
       THEN ch' = [ch EXCEPT !.pc = "llm",
                             !.messages = Append(@, [conversationId |-> ch.conversation,
                                                     role |-> "user",
                                                     content |-> ch.req.message])]
       ELSE ch' = [ch EXCEPT !.pc = "idle", !.response = ChatFailed]
    /\ UNCHANGED except_ch

\* the LLM request settles: an answer, a response that is not ok (the handler
\* throws 'LLM API error'), or a network error
ChatLlmDone(outcome) ==
    /\ ch.pc = "llm"
    /\ IF outcome = "ok"
       THEN ch' = [ch EXCEPT !.pc = "saveAssistant"]
       ELSE ch' = [ch EXCEPT !.pc = "idle", !.response = ChatFailed]
    /\ UNCHANGED except_ch

\* message.create for the assistant message settles
ChatSaveAssistantMessage(ok) ==
    /\ ch.pc = "saveAssistant"
    /\ IF ok
       THEN ch' = [ch EXCEPT !.pc = "update",
                             !.messages = Append(@, [conversationId |-> ch.conversation,
                                                     role |-> "assistant",
                                                     content |-> "answer"])]
       ELSE ch' = [ch EXCEPT !.pc = "idle", !.response = ChatFailed]
    /\ UNCHANGED except_ch

\* conversation.update settles and the handler answers
ChatUpdateConversation(ok) ==
    /\ ch.pc = "update"
    /\ IF ok
       THEN ch' = [ch EXCEPT !.pc = "idle",
                             !.response = [status |-> 200, conversationId |-> ch.conversation]]
       ELSE ch' = [ch EXCEPT !.pc = "idle", !.response = ChatFailed]
    /\ UNCHANGED except_ch

NextChat ==
    \/ \E req \in ChatRequests : ChatPost(req)
    \/ \E ok \in BOOLEAN : ChatFindUnique(ok)
    \/ \E ok \in BOOLEAN : ChatCreateConversation(ok)
    \/ \E ok \in BOOLEAN : ChatSaveUserMessage(ok)
    \/ \E outcome \in {"ok", "httpError", "networkError"} : ChatLlmDone(outcome)
    \/ \E ok \in BOOLEAN : ChatSaveAssistantMessage(ok)
    \/ \E ok \in BOOLEAN : ChatUpdateConversation(ok)

SpecChat == Init /\ [][NextChat]_vars

\* C28: POST /api/chat is all-or-nothing with respect to persistence: when
\* the request has ended in an error response (404, 500), no conversation and
\* no message created by that request remains persisted.
C28_ErrorLeavesNothingPersisted ==
    (ch.pc = "idle" /\ ch.response.status \in {404, 500}) =>
        /\ ch.conversations = ch.before.conversations
        /\ ch.messages = ch.before.messages

-----------------------------------------------------------------------------
(* useChat: sendMessage *)

\* the user message of call k, the assistant message of its response and the
\* error message of its catch block
UserMessage(k) == [role |-> "user", content |-> k]
AssistantMessage(k) == [role |-> "assistant", content |-> k]
ErrorMessage(k) == [role |-> "assistant", content |-> -k]

\* sendMessage(content) up to `await fetch`: updatedMessages is the messages
\* of the currentConversation of the closure (the last render) plus the user
\* message; setCurrentConversation(updatedConversation)
SendMessage(k) ==
    /\ uc.pc[k] = "none"
    /\ LET updatedMessages == Append(uc.rendered, UserMessage(k)) IN
       uc' = [uc EXCEPT !.pc[k] = "waiting",
                        !.updatedMessages[k] = updatedMessages,
                        !.state = updatedMessages]
    /\ UNCHANGED except_uc

\* React renders: the component, and so the next sendMessage, sees the state
Render ==
    /\ uc.rendered # uc.state
    /\ uc' = [uc EXCEPT !.rendered = uc.state]
    /\ UNCHANGED except_uc

\* the fetch of call k settles: setCurrentConversation(finalConversation)
\* with the call's updatedMessages plus the assistant message, or, in the
\* catch block, plus the error message
ResponseArrives(k, ok) ==
    /\ uc.pc[k] = "waiting"
    /\ uc' = [uc EXCEPT !.pc[k] = "settled",
                        !.state = Append(uc.updatedMessages[k],
                                         IF ok THEN AssistantMessage(k) ELSE ErrorMessage(k))]
    /\ UNCHANGED except_uc

NextUseChat ==
    \/ \E k \in SendIds : SendMessage(k)
    \/ Render
    \/ \E k \in SendIds, ok \in BOOLEAN : ResponseArrives(k, ok)

SpecUseChat == Init /\ [][NextUseChat]_vars

\* C29: every user message passed to sendMessage is present in
\* currentConversation.messages once all in-flight sendMessage calls have
\* settled, also when two calls overlap.
C29_NoUserMessageLost ==
    (\A k \in SendIds : uc.pc[k] # "waiting") =>
        \A k \in SendIds :
            uc.pc[k] = "settled" =>
                \E i \in 1..Len(uc.state) : uc.state[i] = UserMessage(k)

-----------------------------------------------------------------------------
(* ToolRegistry *)

getTool(name) == MapGet(reg.tools, name)

hasTool(name) == MapHas(reg.tools, name)

\* Array.from(this.tools.keys())
listTools == [i \in 1..Len(reg.tools) |-> reg.tools[i].key]

\* this.tools.size
getToolCount == Len(reg.tools)

\* the tools passed to registerTool and the names passed to unregisterTool
RegisteredTools ==
    {ToolObject(n, impl) : n \in {"python_execution", "custom_tool"}, impl \in {"v1", "v2"}}

UnregisteredNames == {"deep_search", "python_execution", "custom_tool", "absent_tool"}

ToolNames == BuiltinTools \cup UnregisteredNames

registerTool(tool) ==
    /\ reg.ops < MaxRegistryOps
    /\ reg' = [tools |-> MapSet(reg.tools, NameOf(tool), tool),
               ops   |-> reg.ops + 1,
               last  |-> [op |-> "registerTool", name |-> NameOf(tool)]]
    /\ UNCHANGED except_reg

unregisterTool(name) ==
    /\ reg.ops < MaxRegistryOps
    /\ reg' = [tools |-> MapDelete(reg.tools, name),
               ops   |-> reg.ops + 1,
               last  |-> [op |-> "unregisterTool", name |-> name]]
    /\ UNCHANGED except_reg

NextRegistry ==
    \/ \E tool \in RegisteredTools : registerTool(tool)
    \/ \E name \in UnregisteredNames : unregisterTool(name)

SpecRegistry == Init /\ [][NextRegistry]_vars

\* the names in a list
NamesIn(list) == {list[i] : i \in 1..Len(list)}

\* C30: after any sequence of registerTool/unregisterTool calls on a
\* ToolRegistry that starts with the four builtin tools, hasTool(n) is true
\* exactly when getTool(n) is defined and exactly when n is in listTools(),
\* and getToolCount() is the length of listTools(), which lists no name
\* twice; registerTool with an already-registered name replaces the entry
\* without changing the count, and unregisterTool of an absent name changes
\* nothing.
C30_RegistryConsistent ==
    /\ [](/\ \A n \in ToolNames :
               /\ hasTool(n) <=> getTool(n) # Undefined
               /\ hasTool(n) <=> n \in NamesIn(listTools)
          /\ getToolCount = Len(listTools)
          /\ getToolCount = Cardinality(NamesIn(listTools)))
    /\ [][ /\ \A tool \in RegisteredTools :
                (registerTool(tool) /\ hasTool(NameOf(tool))) =>
                    /\ Len(reg'.tools) = Len(reg.tools)
                    /\ MapGet(reg'.tools, NameOf(tool)) = tool
                    /\ \A n \in ToolNames \ {NameOf(tool)} :
                          MapGet(reg'.tools, n) = MapGet(reg.tools, n)
           /\ \A tool \in RegisteredTools :
                (registerTool(tool) /\ ~hasTool(NameOf(tool))) =>
                    /\ Len(reg'.tools) = Len(reg.tools) + 1
                    /\ MapGet(reg'.tools, NameOf(tool)) = tool
           /\ \A name \in UnregisteredNames :
                (unregisterTool(name) /\ ~hasTool(name)) => reg'.tools = reg.tools
           /\ \A name \in UnregisteredNames :
                (unregisterTool(name) /\ hasTool(name)) =>
                    /\ Len(reg'.tools) = Len(reg.tools) - 1
                    /\ ~MapHas(reg'.tools, name) ]_vars

\* a builtin tool has been replaced by registerTool, an absent name has been
\* unregistered, and the registry still holds four tools
C30_Witness ==
    /\ reg.last = [op |-> "unregisterTool", name |-> "absent_tool"]
    /\ reg.ops = 2
    /\ getTool("python_execution") = ToolObject("python_execution", "v2")
    /\ getToolCount = 4
    /\ listTools = <<"deep_search", "python_execution", "file_processing", "web_browsing">>

====
